---------------------------- MODULE Spec2Model ----------------------------
(*************************************************************************)
(* CommandLineDotNetClient (src/debugging/coreclr): the certificate      *)
(* trust-and-export workflow, its process-wide cache of configured       *)
(* projects and its trust flag.                                          *)
(*                                                                       *)
(* One invocation of trustAndExportSslCertificate is a slot of `calls`.  *)
(* An invocation suspends at every external await (processProvider.exec, *)
(* fsProvider, ext.ui); the code between two suspensions is one action. *)
(* The outcome of an external call is chosen when it completes.          *)
(*                                                                       *)
(* Environment: processProvider.exec either resolves or rejects with an  *)
(* error that carries an error type; fsProvider and ext.ui calls         *)
(* resolve.  A successful export command leaves a file at the export     *)
(* path, a failed one may leave a partial file.                          *)
(*************************************************************************)
EXTENDS Integers, Sequences, FiniteSets, TLC

\* ------------------------------------------------------------- bounds
NumProjects == 2
NumPaths == 2
NumPasswords == 2
NumSlots == 2
MaxPasswordRequests == 3

Projects == 1..NumProjects
Paths == 1..NumPaths
Passwords == 1..NumPasswords
Slots == 1..NumSlots

\* error types processProvider.exec may reject with ("6" and "7" are the
\* two the trust check recovers from)
ErrorTypes == {"1", "6", "7"}

VARIABLES
    KnownConfiguredProjects,        \* static Set<string>
    CertificateTrustedOrSkipped,    \* static boolean
    os,                             \* osProvider.os
    isMac,                          \* osProvider.isMac
    files,                          \* export paths at which a file exists
    calls,                          \* the invocations of the workflow
    completed,                      \* history: projects an invocation returned for
    configured,                     \* history: projects an invocation ran all three steps for
    declined                        \* history: the user declined the trust prompt

vars == <<KnownConfiguredProjects, CertificateTrustedOrSkipped, os, isMac,
          files, calls, completed, configured, declined>>

\* ----------------------------------------------------------- commands
NoArg == 0

Cmd(name, project, path, password) ==
    [name |-> name, project |-> project, path |-> path, password |-> password,
     args |-> <<>>]

VersionCmd == Cmd("dotnet --version", NoArg, NoArg, NoArg)
UserSecretsInitCmd(p) == Cmd("dotnet user-secrets init", p, NoArg, NoArg)
CheckCmd == Cmd("dotnet dev-certs https --check --trust", NoArg, NoArg, NoArg)
TrustCmdWindows == Cmd("dotnet dev-certs https --trust", NoArg, NoArg, NoArg)
TrustCmdSudo == Cmd("sudo -S dotnet dev-certs https --trust", NoArg, NoArg, NoArg)
TrustCommand == IF os = "Windows" THEN TrustCmdWindows ELSE TrustCmdSudo
ExportCmd(e, pw) == Cmd("dotnet dev-certs https -ep", NoArg, e, pw)
UserSecretsPasswordCmd(p, pw) == Cmd("dotnet user-secrets set", p, NoArg, pw)

CmdNames(r) == {r.cmds[i].name : i \in 1..Len(r.cmds)}

\* ------------------------------------------------------------- errors
NoError == [from |-> "none", errorType |-> "none"]
ExecError(cmd, t) == [from |-> cmd.name, errorType |-> t]
InvalidVersionError == [from |-> "semver.gte", errorType |-> "TypeError"]

\* ------------------------------------------------- version and semver
Undefined == <<"undefined">>
Whitespace == {" ", "\n", "\r", "\t"}

\* the outputs `dotnet --version` may print
VersionOutputs ==
    { <<"2", ".", "2", ".", "9", "\n">>,
      <<"3", ".", "0", ".", "0", "\n">>,
      <<" ", "3", ".", "1", ".", "0", "\r", "\n">>,
      <<"2", ".", "1", "0", ".", "0">>,
      <<"1", "0", ".", "0", ".", "1", "\n">> }

RECURSIVE TrimStart(_)
TrimStart(s) ==
    IF s # <<>> /\ Head(s) \in Whitespace THEN TrimStart(Tail(s)) ELSE s

RECURSIVE TrimEnd(_)
TrimEnd(s) ==
    IF s # <<>> /\ s[Len(s)] \in Whitespace
    THEN TrimEnd(SubSeq(s, 1, Len(s) - 1)) ELSE s

Trim(s) == TrimEnd(TrimStart(s))

DigitValue(ch) ==
    CASE ch = "0" -> 0 [] ch = "1" -> 1 [] ch = "2" -> 2 [] ch = "3" -> 3
      [] ch = "4" -> 4 [] ch = "5" -> 5 [] ch = "6" -> 6 [] ch = "7" -> 7
      [] ch = "8" -> 8 [] ch = "9" -> 9 [] OTHER -> -1

\* the dot-separated fields of s
RECURSIVE SplitDots(_, _, _)
SplitDots(s, cur, acc) ==
    IF s = <<>> THEN Append(acc, cur)
    ELSE IF Head(s) = "." THEN SplitDots(Tail(s), <<>>, Append(acc, cur))
    ELSE SplitDots(Tail(s), Append(cur, Head(s)), acc)

RECURSIVE ToNumber(_, _)
ToNumber(s, n) ==
    IF s = <<>> THEN n ELSE ToNumber(Tail(s), 10 * n + DigitValue(Head(s)))

IsNumeric(s) == s # <<>> /\ \A i \in 1..Len(s) : DigitValue(s[i]) >= 0

\* new SemVer(v): major.minor.patch of a version string, or no version
SemverValid(v) ==
    /\ v # Undefined
    /\ LET f == SplitDots(v, <<>>, <<>>)
       IN Len(f) = 3 /\ \A i \in 1..3 : IsNumeric(f[i])

SemverParse(v) ==
    LET f == SplitDots(v, <<>>, <<>>)
    IN <<ToNumber(f[1], 0), ToNumber(f[2], 0), ToNumber(f[3], 0)>>

\* greater than, where the code asks for greater than or equal
SemverGte_Strict(a, b) ==
    \/ a[1] > b[1]
    \/ a[1] = b[1] /\ a[2] > b[2]
    \/ a[1] = b[1] /\ a[2] = b[2] /\ a[3] > b[3]

SemverGte(a, b) ==
    \/ a[1] > b[1]
    \/ a[1] = b[1] /\ a[2] > b[2]
    \/ a[1] = b[1] /\ a[2] = b[2] /\ a[3] >= b[3]

MinSecretsVersion == <<3, 0, 0>>

\* ------------------------------------------------ project file contents
\* the project files fsProvider.readFile may return, as their words
ProjectFileContents ==
    { <<"Project", "PropertyGroup", "TargetFramework">>,
      <<"Project", "PropertyGroup", "UserSecretsId">>,
      <<"Project", "PropertyGroup", "usersecretsid">> }

\* the spellings /UserSecretsId/i matches, among the words above
UserSecretsIdSpellings == {"UserSecretsId", "usersecretsid"}

\* /UserSecretsId/i.test(contents)
TestUserSecretsId(contents) ==
    \E i \in 1..Len(contents) : contents[i] \in UserSecretsIdSpellings

\* ------------------------------------------------------ build options
\* MSBuildExecOptions.properties, as <<key, value>> pairs in key order
PropertyLists ==
    { <<>>,
      << <<"Configuration", "Debug">> >>,
      << <<"Configuration", "Debug">>, <<"Platform", "x64">> >>,
      << <<"Platform", "x64">>, <<"Configuration", "Debug">> >> }

\* execTarget called without options
NoOptions ==
    [given |-> FALSE, hasTarget |-> FALSE, target |-> "",
     hasProperties |-> FALSE, properties |-> <<>>]

\* the options execTarget may be called with: none, or a target that is
\* absent, empty or named, with properties that are absent or listed
ExecOptions ==
    {NoOptions} \cup
    { [given |-> TRUE, hasTarget |-> ht, target |-> t,
       hasProperties |-> hp, properties |-> ps] :
          ht \in BOOLEAN, t \in {"", "Build"}, hp \in BOOLEAN,
          ps \in PropertyLists }

\* an options value in which an absent member holds nothing
WellFormedOptions ==
    { o \in ExecOptions : /\ (~o.hasTarget => o.target = "")
                          /\ (~o.hasProperties => o.properties = <<>>) }

\* no options, and options with every member given
BriefOptions ==
    { o \in WellFormedOptions :
        \/ ~o.given
        \/ o.hasTarget /\ o.target # "" /\ o.hasProperties
              /\ o.properties = << <<"Configuration", "Debug">>,
                                   <<"Platform", "x64">> >> }

\* --------------------------------------------------------------- calls
AllSteps == {"secrets", "trust", "export"}

IdleCall ==
    [ op |-> "none", variant |-> "none", options |-> NoOptions,
      stdout |-> <<>>, concurrentAtStart |-> FALSE,
      pc |-> "idle", projectFile |-> NoArg, hostExportPath |-> NoArg,
      contents |-> <<>>, dotNetVer |-> Undefined, password |-> NoArg,
      attempts |-> 0, selection |-> "none", err |-> NoError,
      cmds |-> <<>>, fsOps |-> <<>>, ui |-> <<>>, results |-> <<>>,
      stepsDone |-> {},
      cachedAtStart |-> FALSE, completedAtStart |-> FALSE,
      knownAtStart |-> {}, trustedAtStart |-> FALSE, declinedAtStart |-> FALSE,
      existedAtExport |-> FALSE ]

Running(r) == r.pc \notin {"idle", "returned", "threw"}

\* processProvider.exec(command, ...) is called; the call suspends at `pc`
Exec(r, pc, cmd) == [r EXCEPT !.pc = pc, !.cmds = Append(@, cmd)]

\* an fsProvider method is called
FsCall(r, pc, op) == [r EXCEPT !.pc = pc, !.fsOps = Append(@, op)]

\* an ext.ui method is called
UiCall(r, pc, what) == [r EXCEPT !.pc = pc, !.ui = Append(@, what)]

Throw(r, err) == [r EXCEPT !.pc = "threw", !.err = err]

Result(r, what) == [r EXCEPT !.results = Append(@, what)]

StepDone(r, step) == [r EXCEPT !.stepsDone = @ \cup {step}]

\* ------------------------------------------------- the workflow's steps
\* what the invocation's arguments and the process state were when it began
Invocation(p, e) ==
    [ IdleCall EXCEPT
        !.op = "trustAndExportSslCertificate", !.variant = "current",
        !.projectFile = p, !.hostExportPath = e,
        !.concurrentAtStart =
            (\E k \in Slots : Running(calls[k]) /\ calls[k].projectFile = p),
        !.cachedAtStart = (p \in KnownConfiguredProjects),
        !.completedAtStart = (p \in completed),
        !.knownAtStart = KnownConfiguredProjects,
        !.trustedAtStart = CertificateTrustedOrSkipped,
        !.declinedAtStart = declined ]

\* exportAndSetPasswordIfNecessary, up to its first await
EnterExport(r) ==
    FsCall([r EXCEPT !.existedAtExport = (r.hostExportPath \in files)],
           "fileExists", "fileExists")

\* EnterTrust without the OS check of lines 95-98
EnterTrust_NoOsCheck(r) ==
    IF CertificateTrustedOrSkipped
    THEN EnterExport(StepDone(r, "trust"))
    ELSE Exec(r, "checkTrust", CheckCmd)

\* EnterTrust without the flag check of lines 100-102
EnterTrust_FlagIgnored(r) ==
    IF os # "Windows" /\ ~isMac
    THEN EnterExport(StepDone(r, "trust"))
    ELSE Exec(r, "checkTrust", CheckCmd)

\* promptAndTrustCertificateIfNecessary, up to its first await
EnterTrust(r) ==
    IF os # "Windows" /\ ~isMac
    THEN EnterExport(StepDone(r, "trust"))
    ELSE IF CertificateTrustedOrSkipped
    THEN EnterExport(StepDone(r, "trust"))
    ELSE Exec(r, "checkTrust", CheckCmd)

\* addUserSecretsIfNecessary, up to its first await
EnterSecrets(r) == FsCall(r, "readFile", "readFile")

\* the history of what invocations did, read off the step just taken
History ==
    /\ completed' = completed \cup
          {calls'[c].projectFile :
              c \in {k \in Slots :
                        /\ calls'[k].op = "trustAndExportSslCertificate"
                        /\ calls'[k].pc = "returned"}}
    /\ configured' = configured \cup
          {calls'[c].projectFile :
              c \in {k \in Slots : /\ calls'[k].pc = "returned"
                                   /\ calls'[k].stepsDone = AllSteps}}
    /\ declined' = (declined \/ \E c \in Slots : calls'[c].selection = "Skip for now")

\* what every step leaves alone, and the history it adds to
Observe == History /\ UNCHANGED <<os, isMac>>

\* Start without the cache check of line 68
Start_NoCacheCheck(c, p, e) ==
    /\ ~Running(calls[c])
    /\ calls' = [calls EXCEPT ![c] = EnterSecrets(Invocation(p, e))]
    /\ UNCHANGED <<KnownConfiguredProjects, CertificateTrustedOrSkipped, files>>
    /\ Observe

\* Start with the cache update of line 77 made before the steps
Start_CacheFirst(c, p, e) ==
    /\ ~Running(calls[c])
    /\ LET r == Invocation(p, e)
       IN calls' = [calls EXCEPT ![c] =
              IF p \in KnownConfiguredProjects
              THEN [r EXCEPT !.pc = "returned"]
              ELSE EnterSecrets(r)]
    /\ KnownConfiguredProjects' = KnownConfiguredProjects \cup {p}
    /\ UNCHANGED <<CertificateTrustedOrSkipped, files>>
    /\ Observe

\* Start with a guard: a call made while another invocation for the same
\* project is running returns without doing anything
Start_OnePerProject(c, p, e) ==
    /\ ~Running(calls[c])
    /\ LET r == Invocation(p, e)
       IN calls' = [calls EXCEPT ![c] =
              IF \/ p \in KnownConfiguredProjects
                 \/ \E k \in Slots : Running(calls[k]) /\ calls[k].projectFile = p
              THEN [r EXCEPT !.pc = "returned"]
              ELSE EnterSecrets(r)]
    /\ UNCHANGED <<KnownConfiguredProjects, CertificateTrustedOrSkipped, files>>
    /\ Observe

\* trustAndExportSslCertificate is called with (p, e)
Start(c, p, e) ==
    /\ ~Running(calls[c])
    /\ LET r == Invocation(p, e)
       IN calls' = [calls EXCEPT ![c] =
              IF p \in KnownConfiguredProjects
              THEN [r EXCEPT !.pc = "returned"]
              ELSE EnterSecrets(r)]
    /\ UNCHANGED <<KnownConfiguredProjects, CertificateTrustedOrSkipped, files>>
    /\ Observe

\* the version is queried whatever the project file holds
ReadFileDone_IgnoreMarker(c) ==
    /\ calls[c].pc = "readFile"
    /\ \E contents \in ProjectFileContents :
         calls' = [calls EXCEPT ![c] =
             Exec([calls[c] EXCEPT !.contents = contents], "getVersion",
                  VersionCmd)]
    /\ UNCHANGED <<KnownConfiguredProjects, CertificateTrustedOrSkipped, files>>
    /\ Observe

\* fsProvider.readFile resolves
ReadFileDone(c) ==
    /\ calls[c].pc = "readFile"
    /\ \E contents \in ProjectFileContents :
         LET r == [calls[c] EXCEPT !.contents = contents]
         IN calls' = [calls EXCEPT ![c] =
                IF TestUserSecretsId(contents)
                THEN EnterTrust(StepDone(r, "secrets"))
                ELSE Exec(r, "getVersion", VersionCmd)]
    /\ UNCHANGED <<KnownConfiguredProjects, CertificateTrustedOrSkipped, files>>
    /\ Observe

\* ------------------------------------------- execTarget and getVersion
\* the two variants of the client that define execTarget and getVersion
Variants == {"current", "legacy"}

\* what the process state was when execTarget or getVersion was called
ApiInvocation(op, variant) ==
    [ IdleCall EXCEPT
        !.op = op, !.variant = variant,
        !.knownAtStart = KnownConfiguredProjects,
        !.trustedAtStart = CertificateTrustedOrSkipped ]

MsBuildCmd(p, args) ==
    [Cmd("dotnet msbuild", p, NoArg, NoArg) EXCEPT !.args = args]

\* the quoted flags for the properties, one per key in key order
PropertyFlags(properties) ==
    [i \in 1..Len(properties) |-> <<"/p:", properties[i][1], properties[i][2]>>]

\* the property flags are put before the target flag
ExecTargetCommand_PropertiesFirst(p, o) ==
    MsBuildCmd(p,
        (IF o.given /\ o.hasProperties THEN PropertyFlags(o.properties) ELSE <<>>)
        \o (IF o.given /\ o.hasTarget /\ o.target # ""
            THEN << <<"/t:", o.target>> >> ELSE <<>>))

\* the command execTarget builds: the project, then the target flag when a
\* non-empty target is given, then the property flags
ExecTargetCommand(p, o) ==
    MsBuildCmd(p,
        (IF o.given /\ o.hasTarget /\ o.target # ""
         THEN << <<"/t:", o.target>> >> ELSE <<>>)
        \o (IF o.given /\ o.hasProperties THEN PropertyFlags(o.properties)
            ELSE <<>>))

\* the same, in the variant of the client without the workflow's state
ExecTargetCommandLegacy(p, o) ==
    MsBuildCmd(p,
        (IF o.given /\ o.hasTarget /\ o.target # ""
         THEN << <<"/t:", o.target>> >> ELSE <<>>)
        \o (IF o.given /\ o.hasProperties THEN PropertyFlags(o.properties)
            ELSE <<>>))

\* execTarget is called with (p, o)
StartExecTarget(c, variant, p, o) ==
    /\ ~Running(calls[c])
    /\ calls' = [calls EXCEPT ![c] =
          Exec([ApiInvocation("execTarget", variant) EXCEPT
                    !.projectFile = p, !.options = o],
               "execTarget",
               IF variant = "current" THEN ExecTargetCommand(p, o)
               ELSE ExecTargetCommandLegacy(p, o))]
    /\ UNCHANGED <<KnownConfiguredProjects, CertificateTrustedOrSkipped, files>>
    /\ Observe

\* `dotnet msbuild` ends
ExecTargetDone(c) ==
    /\ calls[c].pc = "execTarget"
    /\ \/ calls' = [calls EXCEPT ![c] =
              [Result(calls[c], "ok") EXCEPT !.pc = "returned"]]
       \/ \E t \in ErrorTypes :
            calls' = [calls EXCEPT ![c] =
                Throw(Result(calls[c], t),
                      ExecError(calls[c].cmds[1], t))]
    /\ UNCHANGED <<KnownConfiguredProjects, CertificateTrustedOrSkipped, files>>
    /\ Observe

\* getVersion returns the output as it is
GetVersion_NotTrimmed(ok, stdout) == IF ok THEN stdout ELSE Undefined

\* getVersion's result for an outcome of `dotnet --version`
GetVersion(ok, stdout) == IF ok THEN Trim(stdout) ELSE Undefined

\* the same, in the variant of the client without the workflow's state
GetVersionLegacy(ok, stdout) == IF ok THEN Trim(stdout) ELSE Undefined

\* getVersion is called
StartGetVersion(c, variant) ==
    /\ ~Running(calls[c])
    /\ calls' = [calls EXCEPT ![c] =
          Exec(ApiInvocation("getVersion", variant), "version", VersionCmd)]
    /\ UNCHANGED <<KnownConfiguredProjects, CertificateTrustedOrSkipped, files>>
    /\ Observe

\* `dotnet --version` ends and getVersion returns
VersionDone(c) ==
    /\ calls[c].pc = "version"
    /\ LET r == calls[c]
           Returns(ok, out) ==
               IF r.variant = "current" THEN GetVersion(ok, out)
               ELSE GetVersionLegacy(ok, out)
       IN \/ \E out \in VersionOutputs :
               calls' = [calls EXCEPT ![c] =
                   [Result(r, "ok") EXCEPT !.pc = "returned", !.stdout = out,
                                           !.dotNetVer = Returns(TRUE, out)]]
          \/ \E t \in ErrorTypes :
               calls' = [calls EXCEPT ![c] =
                   [Result(r, t) EXCEPT !.pc = "returned",
                                        !.dotNetVer = Returns(FALSE, <<>>)]]
    /\ UNCHANGED <<KnownConfiguredProjects, CertificateTrustedOrSkipped, files>>
    /\ Observe

\* the rest of addUserSecretsIfNecessary once getVersion has returned ver
AfterGetVersion(r, ver) ==
    LET r1 == [r EXCEPT !.dotNetVer = ver]
    IN IF ~SemverValid(ver)
       THEN Throw(r1, InvalidVersionError)
       ELSE IF SemverGte(SemverParse(ver), MinSecretsVersion)
       THEN Exec(r1, "userSecretsInit", UserSecretsInitCmd(r.projectFile))
       ELSE EnterTrust(StepDone(r1, "secrets"))

\* `dotnet --version` ends
GetVersionDone(c) ==
    /\ calls[c].pc = "getVersion"
    /\ \/ \E out \in VersionOutputs :
            calls' = [calls EXCEPT ![c] =
                AfterGetVersion(Result(calls[c], "ok"), GetVersion(TRUE, out))]
       \/ \E t \in ErrorTypes :
            calls' = [calls EXCEPT ![c] =
                AfterGetVersion(Result(calls[c], t), GetVersion(FALSE, <<>>))]
    /\ UNCHANGED <<KnownConfiguredProjects, CertificateTrustedOrSkipped, files>>
    /\ Observe

\* a failure of user-secrets init is swallowed
UserSecretsInitDone_FailureIgnored(c) ==
    /\ calls[c].pc = "userSecretsInit"
    /\ \/ calls' = [calls EXCEPT ![c] =
              EnterTrust(StepDone(Result(calls[c], "ok"), "secrets"))]
       \/ \E t \in ErrorTypes :
            calls' = [calls EXCEPT ![c] =
                EnterTrust(StepDone(Result(calls[c], t), "secrets"))]
    /\ UNCHANGED <<KnownConfiguredProjects, CertificateTrustedOrSkipped, files>>
    /\ Observe

\* `dotnet user-secrets init` ends
UserSecretsInitDone(c) ==
    /\ calls[c].pc = "userSecretsInit"
    /\ \/ calls' = [calls EXCEPT ![c] =
              EnterTrust(StepDone(Result(calls[c], "ok"), "secrets"))]
       \/ \E t \in ErrorTypes :
            calls' = [calls EXCEPT ![c] =
                Throw(Result(calls[c], t),
                      ExecError(UserSecretsInitCmd(calls[c].projectFile), t))]
    /\ UNCHANGED <<KnownConfiguredProjects, CertificateTrustedOrSkipped, files>>
    /\ Observe

\* 6 = certificate not found, 7 = certificate not trusted
RecoverableErrorTypes == {"6", "7"}

\* a successful trust check prompts all the same
CheckTrustDone_PromptOnSuccess(c) ==
    /\ calls[c].pc = "checkTrust"
    /\ \/ calls' = [calls EXCEPT ![c] =
              UiCall(Result(calls[c], "ok"), "showWarningMessage",
                     "showWarningMessage")]
       \/ \E t \in ErrorTypes :
            calls' = [calls EXCEPT ![c] =
                IF t \in RecoverableErrorTypes
                THEN UiCall(Result(calls[c], t), "showWarningMessage",
                            "showWarningMessage")
                ELSE Throw(Result(calls[c], t), ExecError(CheckCmd, t))]
    /\ UNCHANGED <<KnownConfiguredProjects, CertificateTrustedOrSkipped, files>>
    /\ Observe

\* every failure of the trust check is taken for a recoverable one
CheckTrustDone_AllRecoverable(c) ==
    /\ calls[c].pc = "checkTrust"
    /\ \/ /\ calls' = [calls EXCEPT ![c] =
                EnterExport(StepDone(Result(calls[c], "ok"), "trust"))]
          /\ CertificateTrustedOrSkipped' = TRUE
       \/ \E t \in ErrorTypes :
            /\ calls' = [calls EXCEPT ![c] =
                  UiCall(Result(calls[c], t), "showWarningMessage",
                         "showWarningMessage")]
            /\ UNCHANGED CertificateTrustedOrSkipped
    /\ UNCHANGED <<KnownConfiguredProjects, files>>
    /\ Observe

\* `dotnet dev-certs https --check --trust` ends
CheckTrustDone(c) ==
    /\ calls[c].pc = "checkTrust"
    /\ \/ /\ calls' = [calls EXCEPT ![c] =
                EnterExport(StepDone(Result(calls[c], "ok"), "trust"))]
          /\ CertificateTrustedOrSkipped' = TRUE
       \/ \E t \in ErrorTypes :
            /\ calls' = [calls EXCEPT ![c] =
                  IF t \in RecoverableErrorTypes
                  THEN UiCall(Result(calls[c], t), "showWarningMessage",
                              "showWarningMessage")
                  ELSE Throw(Result(calls[c], t), ExecError(CheckCmd, t))]
            /\ UNCHANGED CertificateTrustedOrSkipped
    /\ UNCHANGED <<KnownConfiguredProjects, files>>
    /\ Observe

\* a declined prompt is not remembered (line 142 left out)
WarningDone_DeclineForgotten(c) ==
    /\ calls[c].pc = "showWarningMessage"
    /\ \E selection \in {"Trust", "Skip for now"} :
         LET r == [calls[c] EXCEPT !.selection = selection]
         IN calls' = [calls EXCEPT ![c] =
                IF selection = "Trust"
                THEN Exec([r EXCEPT !.attempts = 0], "trust", TrustCommand)
                ELSE EnterExport(StepDone(r, "trust"))]
    /\ UNCHANGED <<KnownConfiguredProjects, CertificateTrustedOrSkipped, files>>
    /\ Observe

\* the user answers the modal trust prompt
WarningDone(c) ==
    /\ calls[c].pc = "showWarningMessage"
    /\ \E selection \in {"Trust", "Skip for now"} :
         LET r == [calls[c] EXCEPT !.selection = selection]
         IN IF selection = "Trust"
            THEN /\ calls' = [calls EXCEPT ![c] =
                        Exec([r EXCEPT !.attempts = 0], "trust", TrustCommand)]
                 /\ UNCHANGED CertificateTrustedOrSkipped
            ELSE /\ calls' = [calls EXCEPT ![c] =
                        EnterExport(StepDone(r, "trust"))]
                 /\ CertificateTrustedOrSkipped' = TRUE
    /\ UNCHANGED <<KnownConfiguredProjects, files>>
    /\ Observe

\* the retry wording starts one request late
PasswordPrompt_OneLate(attempts) ==
    IF attempts < 2 THEN "Please enter your login password."
    ELSE "Sorry, please enter your login password again."

\* the wording of the password request after `attempts` earlier requests
PasswordPrompt(attempts) ==
    IF attempts < 1 THEN "Please enter your login password."
    ELSE "Sorry, please enter your login password again."

\* the trust command prints output matching /Password:/i: the progress callback
TrustProgress(c) ==
    /\ calls[c].pc = "trust"
    /\ os # "Windows"
    /\ calls[c].attempts < MaxPasswordRequests
    /\ calls' = [calls EXCEPT ![c] =
          UiCall([calls[c] EXCEPT !.attempts = @ + 1], "showInputBox",
                 PasswordPrompt(calls[c].attempts))]
    /\ UNCHANGED <<KnownConfiguredProjects, CertificateTrustedOrSkipped, files>>
    /\ Observe

\* the user enters the password, which is written to the command's stdin
InputBoxDone(c) ==
    /\ calls[c].pc = "showInputBox"
    /\ calls' = [calls EXCEPT ![c].pc = "trust"]
    /\ UNCHANGED <<KnownConfiguredProjects, CertificateTrustedOrSkipped, files>>
    /\ Observe

\* the trust flag is set however the trust command ends
TrustDone_FlagOnFailure(c) ==
    /\ calls[c].pc = "trust"
    /\ \/ calls' = [calls EXCEPT ![c] =
                EnterExport(StepDone(Result(calls[c], "ok"), "trust"))]
       \/ \E t \in ErrorTypes :
            calls' = [calls EXCEPT ![c] =
                  Throw(Result(calls[c], t), ExecError(TrustCommand, t))]
    /\ CertificateTrustedOrSkipped' = TRUE
    /\ UNCHANGED <<KnownConfiguredProjects, files>>
    /\ Observe

\* the trust command ends
TrustDone(c) ==
    /\ calls[c].pc = "trust"
    /\ \/ /\ calls' = [calls EXCEPT ![c] =
                EnterExport(StepDone(Result(calls[c], "ok"), "trust"))]
          /\ CertificateTrustedOrSkipped' = TRUE
       \/ \E t \in ErrorTypes :
            /\ calls' = [calls EXCEPT ![c] =
                  Throw(Result(calls[c], t), ExecError(TrustCommand, t))]
            /\ UNCHANGED CertificateTrustedOrSkipped
    /\ UNCHANGED <<KnownConfiguredProjects, files>>
    /\ Observe

\* Configured without the cache update of line 77
Configured_NotCached(c, r) ==
    /\ calls' = [calls EXCEPT ![c] =
          [StepDone(r, "export") EXCEPT !.pc = "returned"]]
    /\ UNCHANGED KnownConfiguredProjects

\* exportAndSetPasswordIfNecessary has returned: the project is cached
Configured(c, r) ==
    /\ calls' = [calls EXCEPT ![c] =
          [StepDone(r, "export") EXCEPT !.pc = "returned"]]
    /\ KnownConfiguredProjects' = KnownConfiguredProjects \cup {r.projectFile}

\* the export runs whether or not the file exists
FileExistsDone_AlwaysExport(c) ==
    /\ calls[c].pc = "fileExists"
    /\ \E pw \in Passwords :
         calls' = [calls EXCEPT ![c] =
             Exec([calls[c] EXCEPT !.password = pw], "export",
                  ExportCmd(calls[c].hostExportPath, pw))]
    /\ UNCHANGED <<KnownConfiguredProjects, CertificateTrustedOrSkipped, files>>
    /\ Observe

\* fsProvider.fileExists(hostExportPath) resolves, before the export
FileExistsDone(c) ==
    /\ calls[c].pc = "fileExists"
    /\ LET r == calls[c]
       IN IF r.hostExportPath \in files
          THEN Configured(c, r)
          ELSE /\ \E pw \in Passwords :
                    calls' = [calls EXCEPT ![c] =
                        Exec([r EXCEPT !.password = pw], "export",
                             ExportCmd(r.hostExportPath, pw))]
               /\ UNCHANGED KnownConfiguredProjects
    /\ UNCHANGED <<CertificateTrustedOrSkipped, files>>
    /\ Observe

\* the catch block of exportAndSetPasswordIfNecessary is entered with err
CatchExport(r, err) ==
    FsCall([r EXCEPT !.err = err], "fileExistsCatch", "fileExists")

\* `dotnet dev-certs https -ep` ends; a failed export may leave a file
ExportDone(c) ==
    /\ calls[c].pc = "export"
    /\ LET r == calls[c]
       IN \/ /\ calls' = [calls EXCEPT ![c] =
                   Exec(Result(r, "ok"), "setPassword",
                        UserSecretsPasswordCmd(r.projectFile, r.password))]
             /\ files' = files \cup {r.hostExportPath}
          \/ \E t \in ErrorTypes, partial \in BOOLEAN :
               /\ calls' = [calls EXCEPT ![c] =
                     CatchExport(Result(r, t),
                         ExecError(ExportCmd(r.hostExportPath, r.password), t))]
               /\ files' = IF partial THEN files \cup {r.hostExportPath}
                           ELSE files
    /\ UNCHANGED <<KnownConfiguredProjects, CertificateTrustedOrSkipped>>
    /\ Observe

\* a failure of `dotnet user-secrets set` is thrown past the catch block
SetPasswordDone_FailureRethrown(c) ==
    /\ calls[c].pc = "setPassword"
    /\ LET r == calls[c]
       IN \/ Configured(c, Result(r, "ok"))
          \/ /\ \E t \in ErrorTypes :
                  calls' = [calls EXCEPT ![c] =
                      Throw(Result(r, t),
                          ExecError(UserSecretsPasswordCmd(r.projectFile,
                                                           r.password), t))]
             /\ UNCHANGED KnownConfiguredProjects
    /\ UNCHANGED <<CertificateTrustedOrSkipped, files>>
    /\ Observe

\* `dotnet user-secrets set` ends
SetPasswordDone(c) ==
    /\ calls[c].pc = "setPassword"
    /\ LET r == calls[c]
       IN \/ Configured(c, Result(r, "ok"))
          \/ /\ \E t \in ErrorTypes :
                  calls' = [calls EXCEPT ![c] =
                      CatchExport(Result(r, t),
                          ExecError(UserSecretsPasswordCmd(r.projectFile,
                                                           r.password), t))]
             /\ UNCHANGED KnownConfiguredProjects
    /\ UNCHANGED <<CertificateTrustedOrSkipped, files>>
    /\ Observe

\* the catch block rethrows without removing the file
FileExistsCatchDone_NoCleanup(c) ==
    /\ calls[c].pc = "fileExistsCatch"
    /\ calls' = [calls EXCEPT ![c] = Throw(calls[c], calls[c].err)]
    /\ UNCHANGED <<KnownConfiguredProjects, CertificateTrustedOrSkipped, files>>
    /\ Observe

\* fsProvider.fileExists(hostExportPath) resolves, in the catch block
FileExistsCatchDone(c) ==
    /\ calls[c].pc = "fileExistsCatch"
    /\ calls' = [calls EXCEPT ![c] =
          IF calls[c].hostExportPath \in files
          THEN FsCall(calls[c], "unlinkFile", "unlinkFile")
          ELSE Throw(calls[c], calls[c].err)]
    /\ UNCHANGED <<KnownConfiguredProjects, CertificateTrustedOrSkipped, files>>
    /\ Observe

\* fsProvider.unlinkFile(hostExportPath) resolves; the error is rethrown
UnlinkFileDone(c) ==
    /\ calls[c].pc = "unlinkFile"
    /\ files' = files \ {calls[c].hostExportPath}
    /\ calls' = [calls EXCEPT ![c] = Throw(calls[c], calls[c].err)]
    /\ UNCHANGED <<KnownConfiguredProjects, CertificateTrustedOrSkipped>>
    /\ Observe

\* ------------------------------------------------------- specification
Init ==
    /\ KnownConfiguredProjects = {}
    /\ CertificateTrustedOrSkipped = FALSE
    /\ \E host \in {<<"Windows", FALSE>>, <<"Linux", TRUE>>, <<"Linux", FALSE>>} :
         os = host[1] /\ isMac = host[2]
    /\ files \in SUBSET Paths
    /\ calls = [c \in Slots |-> IdleCall]
    /\ completed = {}
    /\ configured = {}
    /\ declined = FALSE

\* one workflow at a time: an invocation begins when none is running
StartAlone ==
    /\ \A c \in Slots : ~Running(calls[c])
    /\ \E p \in Projects, e \in Paths : Start(1, p, e)

\* execTarget of the client that holds the cache and the trust flag is
\* called between workflows, without options or with a target and two
\* properties
ExecTargetAlone ==
    /\ \A c \in Slots : ~Running(calls[c])
    /\ \E p \in Projects, o \in BriefOptions :
          StartExecTarget(1, "current", p, o)

\* getVersion of that client is called between workflows
GetVersionAlone ==
    /\ \A c \in Slots : ~Running(calls[c])
    /\ StartGetVersion(1, "current")

Next ==
    \/ StartAlone
    \/ ExecTargetAlone
    \/ GetVersionAlone
    \/ \E c \in Slots : ExecTargetDone(c)
    \/ \E c \in Slots : VersionDone(c)
    \/ \E c \in Slots : ReadFileDone(c)
    \/ \E c \in Slots : GetVersionDone(c)
    \/ \E c \in Slots : UserSecretsInitDone(c)
    \/ \E c \in Slots : CheckTrustDone(c)
    \/ \E c \in Slots : WarningDone(c)
    \/ \E c \in Slots : TrustProgress(c)
    \/ \E c \in Slots : InputBoxDone(c)
    \/ \E c \in Slots : TrustDone(c)
    \/ \E c \in Slots : FileExistsDone(c)
    \/ \E c \in Slots : ExportDone(c)
    \/ \E c \in Slots : SetPasswordDone(c)
    \/ \E c \in Slots : FileExistsCatchDone(c)
    \/ \E c \in Slots : UnlinkFileDone(c)

Spec == Init /\ [][Next]_vars

\* execTarget and getVersion alone, of both variants, over all their inputs
ExecTargetAny ==
    /\ \A c \in Slots : ~Running(calls[c])
    /\ \E variant \in Variants, p \in Projects, o \in WellFormedOptions :
          StartExecTarget(1, variant, p, o)

GetVersionAny ==
    /\ \A c \in Slots : ~Running(calls[c])
    /\ \E variant \in Variants : StartGetVersion(1, variant)

NextApi ==
    \/ ExecTargetAny
    \/ GetVersionAny
    \/ \E c \in Slots : ExecTargetDone(c)
    \/ \E c \in Slots : VersionDone(c)

SpecApi == Init /\ [][NextApi]_vars

\* two trustAndExportSslCertificate calls that overlap: the second is made
\* with the arguments of the first while the first is suspended at an await
StartFirst ==
    /\ \A c \in Slots : calls[c].pc = "idle"
    /\ \E p \in Projects, e \in Paths : Start(1, p, e)

StartOverlapping ==
    /\ Running(calls[1])
    /\ calls[2].pc = "idle"
    /\ Start(2, calls[1].projectFile, calls[1].hostExportPath)

\* the environment the overlapping calls are followed in: the project file
\* is one of two, the version is 3.0.0, the check command ends with
\* status 0 or with error type 6, the export subcommand with status 0 or
\* with error type 1, every other command with status 0, and the trust
\* command asks for the password at most once
OverlapEnvironment(r) ==
    /\ r.contents \in {IdleCall.contents,
                       <<"Project", "PropertyGroup", "TargetFramework">>,
                       <<"Project", "PropertyGroup", "UserSecretsId">>}
    /\ r.dotNetVer \in {Undefined, <<"3", ".", "0", ".", "0">>}
    /\ \A i \in 1..Len(r.results) :
          \/ r.results[i] = "ok"
          \/ r.results[i] = "6" /\ r.cmds[i].name = CheckCmd.name
          \/ r.results[i] = "1" /\ r.cmds[i].name = ExportCmd(NoArg, NoArg).name
    /\ r.attempts <= 1

InOverlapEnvironment == \A c \in Slots : OverlapEnvironment(calls[c])

NextConcurrent ==
    \/ StartFirst
    \/ StartOverlapping
    \/ \E c \in Slots : ReadFileDone(c) /\ InOverlapEnvironment'
    \/ \E c \in Slots : GetVersionDone(c) /\ InOverlapEnvironment'
    \/ \E c \in Slots : UserSecretsInitDone(c) /\ InOverlapEnvironment'
    \/ \E c \in Slots : CheckTrustDone(c) /\ InOverlapEnvironment'
    \/ \E c \in Slots : WarningDone(c) /\ InOverlapEnvironment'
    \/ \E c \in Slots : TrustProgress(c) /\ InOverlapEnvironment'
    \/ \E c \in Slots : InputBoxDone(c) /\ InOverlapEnvironment'
    \/ \E c \in Slots : TrustDone(c) /\ InOverlapEnvironment'
    \/ \E c \in Slots : FileExistsDone(c) /\ InOverlapEnvironment'
    \/ \E c \in Slots : ExportDone(c) /\ InOverlapEnvironment'
    \/ \E c \in Slots : SetPasswordDone(c) /\ InOverlapEnvironment'
    \/ \E c \in Slots : FileExistsCatchDone(c) /\ InOverlapEnvironment'
    \/ \E c \in Slots : UnlinkFileDone(c) /\ InOverlapEnvironment'

\* the overlapping calls are made in a fresh process, before any certificate
\* was exported
InitConcurrent == Init /\ files = {}

SpecConcurrent == InitConcurrent /\ [][NextConcurrent]_vars

\* ---------------------------------------------------- what a run did
\* how command `name` of invocation r ended: "ok", an error type, or "none"
\* when r has not run it to its end
Outcome(r, name) ==
    LET at == {i \in 1..Len(r.results) : r.cmds[i].name = name}
    IN IF at = {} THEN "none" ELSE r.results[CHOOSE i \in at : TRUE]

Ran(r, cmd) == cmd.name \in CmdNames(r)

Failed(r, cmd) == Outcome(r, cmd.name) \notin {"ok", "none"}

ExportName == ExportCmd(NoArg, NoArg)
SetPasswordName == UserSecretsPasswordCmd(NoArg, NoArg)
InitName == UserSecretsInitCmd(NoArg)

\* ------------------------------------------------------------- claims
\* C1: an invocation for a project that is in the configured-projects cache
\* returns at once: it executes no command, makes no file-system call and
\* shows no prompt.
C1_CachedProjectReturnsAtOnce ==
    \A c \in Slots :
        calls[c].cachedAtStart =>
            /\ calls[c].pc = "returned"
            /\ calls[c].cmds = <<>>
            /\ calls[c].fsOps = <<>>
            /\ calls[c].ui = <<>>

\* an invocation found its project cached, on a host where the trust flag is
\* still unset and no file is at its export path
C1_Witness ==
    \E c \in Slots :
        /\ calls[c].cachedAtStart
        /\ calls[c].pc = "returned"
        /\ ~CertificateTrustedOrSkipped
        /\ calls[c].hostExportPath \notin files

\* C2: once an invocation for a project has returned without error, no later
\* invocation for that project executes a command, whatever its export path.
C2_NoCommandsAfterSuccess ==
    \A c \in Slots : calls[c].completedAtStart => calls[c].cmds = <<>>

\* a later invocation for a completed project, with an export path at which
\* there is no file, has ended
C2_Witness ==
    \E c \in Slots :
        /\ calls[c].completedAtStart
        /\ calls[c].pc = "returned"
        /\ calls[c].hostExportPath \notin files

\* C3: a project is in the cache only if an invocation for it ran the
\* secrets, trust and export steps to their end and returned; an invocation
\* that raises leaves the cache as it found it.
C3_CachedOnlyAfterAllSteps ==
    /\ KnownConfiguredProjects \subseteq configured
    /\ \A c \in Slots :
          calls[c].pc = "threw" =>
              KnownConfiguredProjects = calls[c].knownAtStart

\* an invocation raised in the export step while another project is cached
C3_Witness ==
    \E c \in Slots :
        /\ calls[c].pc = "threw"
        /\ calls[c].stepsDone = {"secrets", "trust"}
        /\ KnownConfiguredProjects # {}
        /\ calls[c].projectFile \notin KnownConfiguredProjects

\* C4: when the trust check fails with an error type other than "6" and "7",
\* the invocation raises that error, shows no prompt, runs neither the trust
\* command nor the export nor the set-password command, and leaves the trust
\* flag unset and the cache as it was.
C4_FatalTrustCheckError ==
    \A c \in Slots :
        LET r == calls[c]
            t == Outcome(r, CheckCmd.name)
        IN t \notin {"none", "ok", "6", "7"} =>
              /\ r.pc = "threw"
              /\ r.err = ExecError(CheckCmd, t)
              /\ r.ui = <<>>
              /\ ~Ran(r, TrustCmdWindows) /\ ~Ran(r, TrustCmdSudo)
              /\ ~Ran(r, ExportName) /\ ~Ran(r, SetPasswordName)
              /\ ~CertificateTrustedOrSkipped
              /\ KnownConfiguredProjects = r.knownAtStart

\* the trust check failed with error type "1"
C4_Witness ==
    \E c \in Slots :
        /\ Outcome(calls[c], CheckCmd.name) = "1"
        /\ calls[c].pc = "threw"

Shown(r, what) == \E i \in 1..Len(r.ui) : r.ui[i] = what

ReachedExport(r) == \E i \in 1..Len(r.fsOps) : r.fsOps[i] = "fileExists"

\* C6: when a file is at the export path as the export step is reached, the
\* invocation never runs the export command.
C6_ExistingFileIsNotExported ==
    \A c \in Slots : calls[c].existedAtExport => ~Ran(calls[c], ExportName)

\* an invocation that ran its steps found the file and returned
C6_Witness ==
    \E c \in Slots :
        /\ calls[c].existedAtExport
        /\ ~calls[c].cachedAtStart
        /\ calls[c].pc = "returned"

\* C7: on a host that is neither Windows nor Mac an invocation never runs the
\* trust check or the trust command, shows no prompt and leaves the trust flag
\* as it was, and it goes on to the export step: the export and then the
\* set-password command run when no file is at the export path.
C7_NoTrustStepOnOtherHosts ==
    (os # "Windows" /\ ~isMac) =>
        \A c \in Slots :
            LET r == calls[c]
            IN /\ ~Ran(r, CheckCmd)
               /\ ~Ran(r, TrustCmdWindows) /\ ~Ran(r, TrustCmdSudo)
               /\ r.ui = <<>>
               /\ CertificateTrustedOrSkipped = r.trustedAtStart
               /\ "secrets" \in r.stepsDone => ReachedExport(r)
               /\ ("secrets" \in r.stepsDone /\ r.pc # "fileExists"
                     /\ ~r.existedAtExport) => Ran(r, ExportName)
               /\ Outcome(r, ExportName.name) = "ok" => Ran(r, SetPasswordName)

\* on such a host an invocation exported the certificate, stored the
\* password and returned
C7_Witness ==
    \E c \in Slots :
        /\ os # "Windows" /\ ~isMac
        /\ calls[c].pc = "returned"
        /\ Outcome(calls[c], SetPasswordName.name) = "ok"

\* C8: when the trust check succeeds the invocation shows no prompt and does
\* not run the trust command; the trust flag is true and the invocation goes
\* on to the export step.
C8_TrustedCertificateNeedsNoPrompt ==
    \A c \in Slots :
        LET r == calls[c]
        IN Outcome(r, CheckCmd.name) = "ok" =>
              /\ r.ui = <<>>
              /\ ~Ran(r, TrustCmdWindows) /\ ~Ran(r, TrustCmdSudo)
              /\ CertificateTrustedOrSkipped
              /\ "trust" \in r.stepsDone
              /\ ReachedExport(r)

\* the trust check succeeded and the invocation went on to export
C8_Witness ==
    \E c \in Slots :
        /\ Outcome(calls[c], CheckCmd.name) = "ok"
        /\ Ran(calls[c], ExportName)

\* C9: when the user declines the trust prompt the trust command is not run,
\* the trust flag is set and the invocation goes on to the export step, where
\* alone it may still raise; no invocation that begins later, for any
\* project, shows the trust prompt.
C9_DeclineIsRemembered ==
    /\ \A c \in Slots :
          LET r == calls[c]
          IN r.selection = "Skip for now" =>
                /\ Outcome(r, CheckCmd.name) \in RecoverableErrorTypes
                /\ ~Ran(r, TrustCmdWindows) /\ ~Ran(r, TrustCmdSudo)
                /\ CertificateTrustedOrSkipped
                /\ "trust" \in r.stepsDone
                /\ ReachedExport(r)
                /\ r.pc = "threw" =>
                      r.err.from \in {ExportName.name, SetPasswordName.name}
    /\ \A c \in Slots :
          calls[c].declinedAtStart => ~Shown(calls[c], "showWarningMessage")

\* after a declined prompt, a later invocation for a project that is not
\* cached ran its steps on the same Windows or Mac host and returned
C9_Witness ==
    \E c \in Slots :
        /\ calls[c].declinedAtStart
        /\ ~calls[c].cachedAtStart
        /\ calls[c].pc = "returned"
        /\ (os = "Windows" \/ isMac)

\* C10: when the project file's contents hold the secrets-identifier marker,
\* the invocation runs neither the version query nor user-secrets init.
C10_MarkerSkipsSecretsInit ==
    \A c \in Slots :
        TestUserSecretsId(calls[c].contents) =>
            /\ ~Ran(calls[c], VersionCmd)
            /\ ~Ran(calls[c], InitName)

\* a project file with the marker, in another letter case, was read and the
\* invocation went on to run a command
C10_Witness ==
    \E c \in Slots :
        /\ calls[c].contents = <<"Project", "PropertyGroup", "usersecretsid">>
        /\ calls[c].cmds # <<>>

IsWorkflow(r) == r.op = "trustAndExportSslCertificate"

\* the versions, as getVersion returns them, at or above 3.0.0 and below it
AtLeast300 ==
    { <<"3", ".", "0", ".", "0">>, <<"3", ".", "1", ".", "0">>,
      <<"1", "0", ".", "0", ".", "1">> }
Below300 ==
    { <<"2", ".", "2", ".", "9">>, <<"2", ".", "1", "0", ".", "0">> }

\* C11: for a project file without the marker and a reported version, the
\* invocation runs user-secrets init if and only if the version is 3.0.0 or
\* above: not for 2.2.9 and 2.10.0, and for 3.0.0, 3.1.0 and 10.0.1.
C11_SecretsInitFromVersion300 ==
    \A c \in Slots :
        LET r == calls[c]
        IN (/\ IsWorkflow(r)
            /\ r.contents # <<>> /\ ~TestUserSecretsId(r.contents)
            /\ Outcome(r, VersionCmd.name) = "ok") =>
              /\ r.dotNetVer \in AtLeast300 \cup Below300
              /\ Ran(r, InitName) <=> r.dotNetVer \in AtLeast300

\* version 3.0.0 was reported and user-secrets init ran
C11_Witness ==
    \E c \in Slots :
        /\ IsWorkflow(calls[c])
        /\ calls[c].dotNetVer = <<"3", ".", "0", ".", "0">>
        /\ Ran(calls[c], InitName)

\* t is s without the whitespace at its two ends
IsTrimOf(t, s) ==
    /\ t = <<>> \/ (t[1] \notin Whitespace /\ t[Len(t)] \notin Whitespace)
    /\ \E i \in 0..Len(s) :
          /\ i + Len(t) <= Len(s)
          /\ SubSeq(s, i + 1, i + Len(t)) = t
          /\ \A k \in 1..Len(s) :
                (k <= i \/ k > i + Len(t)) => s[k] \in Whitespace

\* C12: getVersion, in both variants, never raises: when the version command
\* succeeds it returns the command's output without the whitespace at its
\* ends, and when the command fails it returns undefined.
C12_GetVersionNeverRaises ==
    \A c \in Slots :
        LET r == calls[c]
        IN r.op = "getVersion" =>
              /\ r.pc # "threw"
              /\ r.pc = "returned" =>
                    IF Outcome(r, VersionCmd.name) = "ok"
                    THEN IsTrimOf(r.dotNetVer, r.stdout)
                    ELSE r.dotNetVer = Undefined

\* getVersion returned 3.1.0 for an output with whitespace at both ends
C12_Witness ==
    \E c \in Slots :
        /\ calls[c].op = "getVersion"
        /\ calls[c].pc = "returned"
        /\ calls[c].stdout = <<" ", "3", ".", "1", ".", "0", "\r", "\n">>
        /\ calls[c].dotNetVer = <<"3", ".", "1", ".", "0">>

\* C13: execTarget, in both variants, executes exactly one command: dotnet
\* msbuild with the project, then a /t: flag if and only if a non-empty
\* target is given, then one /p: flag per property in key order; the two
\* variants build the same command.
C13_ExecTargetCommand ==
    \A c \in Slots :
        LET r == calls[c]
            o == r.options
            hasTarget == o.given /\ o.hasTarget /\ o.target # ""
            properties == IF o.given /\ o.hasProperties THEN o.properties
                          ELSE <<>>
            first == IF hasTarget THEN 1 ELSE 0
        IN r.op = "execTarget" =>
              /\ Len(r.cmds) = 1
              /\ r.cmds[1].name = "dotnet msbuild"
              /\ r.cmds[1].project = r.projectFile
              /\ Len(r.cmds[1].args) = first + Len(properties)
              /\ hasTarget => r.cmds[1].args[1] = <<"/t:", o.target>>
              /\ \A i \in 1..Len(properties) :
                    r.cmds[1].args[first + i] =
                        <<"/p:", properties[i][1], properties[i][2]>>
              /\ ExecTargetCommand(r.projectFile, o)
                    = ExecTargetCommandLegacy(r.projectFile, o)

\* execTarget ran with a target and two properties and returned
C13_Witness ==
    \E c \in Slots :
        /\ calls[c].op = "execTarget"
        /\ calls[c].pc = "returned"
        /\ Len(calls[c].cmds[1].args) = 3

\* the place of a command in the workflow's order, and the step it belongs to
CmdRank(name) ==
    CASE name = VersionCmd.name -> 1
      [] name = InitName.name -> 2
      [] name = CheckCmd.name -> 3
      [] name \in {TrustCmdWindows.name, TrustCmdSudo.name} -> 4
      [] name = ExportName.name -> 5
      [] name = SetPasswordName.name -> 6
      [] OTHER -> 0

StepRank(name) ==
    CASE name \in {VersionCmd.name, InitName.name, "semver.gte"} -> 1
      [] name \in {CheckCmd.name, TrustCmdWindows.name, TrustCmdSudo.name} -> 2
      [] name \in {ExportName.name, SetPasswordName.name} -> 3
      [] OTHER -> 0

\* C14: an invocation executes its commands in the order version query,
\* user-secrets init, trust check, trust, export, set-password, each after
\* the one before it ended; when it raises, no command of a later step than
\* the raising one was executed, and a failed user-secrets init raises its
\* error with no command after it.
C14_CommandsInStepOrder ==
    \A c \in Slots :
        LET r == calls[c]
            n == Len(r.cmds)
        IN IsWorkflow(r) =>
              /\ \A i, j \in 1..n :
                    i < j => /\ CmdRank(r.cmds[i].name) > 0
                             /\ CmdRank(r.cmds[i].name) < CmdRank(r.cmds[j].name)
              /\ Len(r.results) \in {n - 1, n}
              /\ r.pc = "threw" =>
                    /\ Len(r.results) = n
                    /\ StepRank(r.err.from) > 0
                    /\ \A i \in 1..n :
                          StepRank(r.cmds[i].name) <= StepRank(r.err.from)
              /\ Failed(r, InitName) =>
                    /\ r.pc = "threw"
                    /\ r.err = ExecError(UserSecretsInitCmd(r.projectFile),
                                         Outcome(r, InitName.name))
                    /\ r.cmds[n].name = InitName.name

\* user-secrets init failed and the invocation raised
C14_Witness ==
    \E c \in Slots :
        /\ Failed(calls[c], InitName)
        /\ calls[c].pc = "threw"

\* a step of an execTarget or getVersion call
ApiStep ==
    \E c \in Slots :
        /\ calls'[c] # calls[c]
        /\ calls'[c].op \in {"execTarget", "getVersion"}

\* C15: the trust flag, once true, stays true; an invocation that begins with
\* the flag true, for any project, runs neither the trust check nor the trust
\* command and shows no prompt; a step of execTarget or getVersion changes
\* neither the flag nor the cache.
C15_TrustFlagIsMonotonic ==
    /\ [][CertificateTrustedOrSkipped => CertificateTrustedOrSkipped']_vars
    /\ [](\A c \in Slots :
            LET r == calls[c]
            IN (IsWorkflow(r) /\ r.trustedAtStart) =>
                  /\ ~Ran(r, CheckCmd)
                  /\ ~Ran(r, TrustCmdWindows) /\ ~Ran(r, TrustCmdSudo)
                  /\ r.ui = <<>>)
    /\ [][ApiStep => UNCHANGED <<CertificateTrustedOrSkipped,
                                 KnownConfiguredProjects>>]_vars

\* an invocation for a project that is not cached began with the flag true,
\* ran the export and returned
C15_Witness ==
    \E c \in Slots :
        /\ IsWorkflow(calls[c])
        /\ calls[c].trustedAtStart
        /\ ~calls[c].cachedAtStart
        /\ calls[c].pc = "returned"
        /\ Ran(calls[c], ExportName)

\* the wordings of the password requests an invocation made, in order
PasswordRequests(r) ==
    SelectSeq(r.ui, LAMBDA what : what # "showWarningMessage")

TrustRuns(r) ==
    Cardinality({i \in 1..Len(r.cmds) :
                    r.cmds[i].name \in {TrustCmdWindows.name, TrustCmdSudo.name}})

\* C16 as claimed: during one execution of the trust command the user is asked
\* for the password at most twice, first with the initial and then with the
\* retry wording; on Windows the command is not elevated and the password is
\* never requested.
C16_AtMostTwoPasswordRequests ==
    \A c \in Slots :
        LET r == calls[c]
            q == PasswordRequests(r)
        IN IsWorkflow(r) =>
              /\ Len(q) <= 2
              /\ Len(q) >= 1 => q[1] = "Please enter your login password."
              /\ Len(q) >= 2 =>
                    q[2] = "Sorry, please enter your login password again."
              /\ os = "Windows" => ~Ran(r, TrustCmdSudo) /\ q = <<>>

\* C16 amended: the trust command is executed once and never run again; the
\* user is asked for the password once for every output of the command that
\* matches Password:, without a limit of two, the first time with the initial
\* wording and every later time with the retry wording; on Windows the
\* command is not elevated and the password is never requested.
C16_OneRequestPerPasswordOutput ==
    \A c \in Slots :
        LET r == calls[c]
            q == PasswordRequests(r)
        IN IsWorkflow(r) =>
              /\ TrustRuns(r) <= 1
              /\ Len(q) = r.attempts
              /\ q # <<>> => Ran(r, TrustCmdSudo)
              /\ \A i \in 1..Len(q) :
                    q[i] = IF i = 1 THEN "Please enter your login password."
                           ELSE "Sorry, please enter your login password again."
              /\ os = "Windows" => ~Ran(r, TrustCmdSudo) /\ q = <<>>

\* the trust command asked three times and then succeeded
C16_Witness ==
    \E c \in Slots :
        /\ Len(PasswordRequests(calls[c])) = 3
        /\ Outcome(calls[c], TrustCmdSudo.name) = "ok"

\* C17: nothing holds back or cuts short a trustAndExportSslCertificate call
\* made while another invocation for the same project is running: when the
\* project is not cached as the call is made, the call enters the secrets
\* step, and later passes the trust-flag check whenever the flag is still
\* false as it gets there, so that (C17_Witness) two overlapping calls for one
\* uncached project both show the trust prompt and both execute the
\* set-password command.
C17_OverlappingCallIsNotHeldBack ==
    \A c \in Slots :
        LET r == calls[c]
        IN r.concurrentAtStart /\ ~r.cachedAtStart =>
              /\ r.fsOps # <<>> /\ r.fsOps[1] = "readFile"
              /\ r.pc = "returned" => r.stepsDone = AllSteps

\* both overlapping calls for one project showed the trust prompt and both
\* executed the set-password command to its end
C17_Witness ==
    /\ calls[1].projectFile = calls[2].projectFile
    /\ calls[2].concurrentAtStart
    /\ ~calls[1].cachedAtStart /\ ~calls[2].cachedAtStart
    /\ \A c \in {1, 2} :
          /\ ~calls[c].trustedAtStart
          /\ Shown(calls[c], "showWarningMessage")
          /\ Outcome(calls[c], SetPasswordName.name) = "ok"
          /\ calls[c].pc = "returned"

\* C18 as claimed: a failed version query is not fatal to the workflow: when
\* the project file lacks the secrets-identifier marker and the version
\* command fails, the workflow skips secrets initialization and continues to
\* the trust and export steps without raising.
C18_FailedVersionQueryIsNotFatal ==
    \A c \in Slots :
        LET r == calls[c]
        IN IsWorkflow(r) /\ Failed(r, VersionCmd) =>
              /\ ~TestUserSecretsId(r.contents)
              /\ ~Ran(r, InitName)
              /\ r.err = NoError
              /\ "secrets" \in r.stepsDone

\* the export and the set-password command of invocation r were given the
\* path and the project of r and one and the same password
SamePassword(r) ==
    \E i, j \in 1..Len(r.cmds) :
        /\ r.cmds[i].name = ExportName.name
        /\ r.cmds[j].name = SetPasswordName.name
        /\ r.cmds[i].path = r.hostExportPath
        /\ r.cmds[j].project = r.projectFile
        /\ r.cmds[i].password = r.cmds[j].password

TrustFailed(r) == IsWorkflow(r) /\ Failed(r, TrustCommand)

\* C20: if the user accepts the trust prompt and the trust command then
\* fails, the error of the command propagates out of the workflow, the export
\* step is not executed, the project is not cached and the trust flag stays
\* false; the workflow invocation that follows finds the flag false and, as
\* every invocation on a Windows or Mac host that finds it false and gets past
\* the secrets step, runs the trust check again.
C20_FailedTrustLeavesFlagFalse ==
    /\ [](\A c \in Slots :
            LET r == calls[c]
            IN /\ TrustFailed(r) =>
                    /\ r.selection = "Trust"
                    /\ r.pc = "threw"
                    /\ r.err.from = TrustCommand.name
                    /\ r.err.errorType = Outcome(r, TrustCommand.name)
                    /\ ~ReachedExport(r) /\ ~Ran(r, ExportName)
                    /\ "trust" \notin r.stepsDone
                    /\ r.projectFile \notin KnownConfiguredProjects
                    /\ KnownConfiguredProjects = r.knownAtStart
                    /\ ~CertificateTrustedOrSkipped
               /\ /\ IsWorkflow(r) /\ ~r.trustedAtStart
                  /\ "secrets" \in r.stepsDone
                  /\ os = "Windows" \/ isMac
                  => Ran(r, CheckCmd))
    /\ [][\A c \in Slots :
            TrustFailed(calls[c]) /\ calls'[c] # calls[c] /\ IsWorkflow(calls'[c])
            => /\ ~calls'[c].trustedAtStart
               /\ calls'[c].pc = "readFile"
               /\ calls'[c].projectFile = calls[c].projectFile
                     => ~calls'[c].cachedAtStart]_vars

\* the user accepted the prompt, the trust command failed and the workflow
\* raised its error
C20_Witness ==
    \E c \in Slots :
        /\ TrustFailed(calls[c])
        /\ calls[c].selection = "Trust"
        /\ calls[c].pc = "threw"
        /\ ~CertificateTrustedOrSkipped

=============================================================================
